---- MODULE Spec2Model ----
(***************************************************************************)
(* Model of the /slice endpoint (app.py) and of the locator batch          *)
(* processor, slice renderer and plane-normal calculator (slice_obj.py).   *)
(***************************************************************************)
EXTENDS Integers, Sequences, FiniteSets, TLC

VARIABLES
    pc,                    \* position of the request handler
    req,                   \* the request being handled
    obj_file_path_actual,  \* app.py: resolved mesh path ("" while unresolved)
    makedirs_called,       \* app.py:52 has created the output directory
    process_called,        \* process_locators_for_obj has been entered
    returned,              \* process_locators_for_obj has returned
    escaped,               \* an exception left process_locators_for_obj
    idx,                   \* 1-based position of the for loop of slice_obj.py:158
    results,               \* slice_obj.py:157 results list
    calls,                 \* per call of create_slice_image_pyvista: what it did
    success,               \* first component of the batch's return value
    http,                  \* HTTP status of the response, 0 while none
    temp_files,            \* temporary .obj files left on disk
    open_plotters,         \* Plotters opened and not closed
    written,               \* image paths written by plotter.screenshot
    npc, nrx, nry, nrz, normal_vec   \* driver of calculate_plane_normal

vars == <<pc, req, obj_file_path_actual, makedirs_called, process_called,
          returned, escaped, idx, results, calls, success, http, temp_files,
          open_plotters, written, npc, nrx, nry, nrz, normal_vec>>

handlerVars == <<pc, req, obj_file_path_actual, makedirs_called, process_called,
                 returned, escaped, idx, results, calls, success, http,
                 temp_files, open_plotters, written>>

normalVars == <<npc, nrx, nry, nrz, normal_vec>>

(***************************************************************************)
(* Bounds                                                                  *)
(***************************************************************************)
MaxLocs == 2          \* longest locator list of a request
FallbackRange == 2    \* np.random.randint(1000) drawn from 0..FallbackRange-1
MaxQuarter == 4       \* rx, ry range over 90*k, k in -MaxQuarter..MaxQuarter
MaxRz == 3            \* rz ranges over 45*k, k in -MaxRz..MaxRz

(***************************************************************************)
(* Plane normal: slice_obj.py calculate_plane_normal, in exact arithmetic  *)
(* for angles that are multiples of 90 degrees.                            *)
(***************************************************************************)
Cos(deg) ==
    CASE deg % 360 = 0   -> 1
      [] deg % 360 = 90  -> 0
      [] deg % 360 = 180 -> -1
      [] deg % 360 = 270 -> 0

Sin(deg) ==
    CASE deg % 360 = 0   -> 0
      [] deg % 360 = 90  -> 1
      [] deg % 360 = 180 -> 0
      [] deg % 360 = 270 -> -1

MatVec(m, v) ==
    << m[1][1]*v[1] + m[1][2]*v[2] + m[1][3]*v[3],
       m[2][1]*v[1] + m[2][2]*v[2] + m[2][3]*v[3],
       m[3][1]*v[1] + m[3][2]*v[2] + m[3][3]*v[3] >>

rot_mat_y(ry_deg) ==
    << << Cos(ry_deg), 0, Sin(ry_deg) >>,
       << 0, 1, 0 >>,
       << -Sin(ry_deg), 0, Cos(ry_deg) >> >>

rot_mat_x(rx_deg) ==
    << << 1, 0, 0 >>,
       << 0, Cos(rx_deg), -Sin(rx_deg) >>,
       << 0, Sin(rx_deg), Cos(rx_deg) >> >>

\* np.linalg.norm on a vector whose squared length is a perfect square
Norm(v) ==
    LET sq == v[1]*v[1] + v[2]*v[2] + v[3]*v[3]
    IN  CHOOSE n \in 0..sq : n*n <= sq /\ (n+1)*(n+1) > sq

\* the two rotations applied in the other order (X first, then Y)
calculate_plane_normal_xy(rx_deg, ry_deg, rz_deg) ==
    LET v1 == MatVec(rot_mat_x(rx_deg), <<0, 0, 1>>)
        v2 == MatVec(rot_mat_y(ry_deg), v1)
        norm == Norm(v2)
    IN  IF norm > 0
        THEN << v2[1] \div norm, v2[2] \div norm, v2[3] \div norm >>
        ELSE <<0, 0, 1>>

calculate_plane_normal(rx_deg, ry_deg, rz_deg) ==
    LET v1 == MatVec(rot_mat_y(ry_deg), <<0, 0, 1>>)
        v2 == MatVec(rot_mat_x(rx_deg), v1)
        norm == Norm(v2)
    IN  IF norm > 0
        THEN << v2[1] \div norm, v2[2] \div norm, v2[3] \div norm >>
        ELSE <<0, 0, 1>>

(***************************************************************************)
(* Requests                                                                *)
(***************************************************************************)
RotKeys == {"rx", "ry", "rz"}
PosKeys == {"x", "y", "z"}

\* A locator entry of the JSON list.  isDict is FALSE for an entry that is
\* not a JSON object; has is the set of keys present; bad is the set of
\* present keys whose value is not a number (a string or null).
Loc(isDict, has, id, bad, rx, ry, rz) ==
    [isDict |-> isDict, has |-> has, id |-> id, bad |-> bad,
     rx |-> rx, ry |-> ry, rz |-> rz]

AllKeys == {"id"} \cup PosKeys \cup RotKeys

LocatorPool ==
    { Loc(TRUE, AllKeys, "A", {}, 90, 90, 45),
      Loc(TRUE, PosKeys, "", {}, 0, 0, 0),
      Loc(FALSE, {}, "", {}, 0, 0, 0),
      Loc(TRUE, AllKeys, "C", {"rx"}, 0, 0, 0),
      Loc(TRUE, AllKeys, "D", {"x"}, 0, 180, 0) }

SeqsUpTo(S, n) == UNION { [1..k -> S] : k \in 0..n }

\* obj_file_path as the client sent it and the files that exist on disk:
\* present = the key is there with a non-empty value, isStr = it is a string,
\* isAbs = os.path.isabs, exists = os.path.exists of the path itself,
\* inRoot / inData = os.path.exists of it joined to the base / base/data.
PathPool ==
    { [present |-> FALSE, isStr |-> TRUE, isAbs |-> FALSE, exists |-> FALSE,
       inRoot |-> FALSE, inData |-> FALSE],
      [present |-> TRUE, isStr |-> FALSE, isAbs |-> FALSE, exists |-> FALSE,
       inRoot |-> FALSE, inData |-> FALSE] }
    \cup { [present |-> TRUE, isStr |-> TRUE, isAbs |-> TRUE, exists |-> e,
            inRoot |-> FALSE, inData |-> FALSE] : e \in BOOLEAN }
    \cup { [present |-> TRUE, isStr |-> TRUE, isAbs |-> FALSE, exists |-> FALSE,
            inRoot |-> r, inData |-> d] : r \in BOOLEAN, d \in BOOLEAN }

\* What request.get_json() does with the body:
\*   "raise"   the body is missing or is not parsable JSON (Flask raises)
\*   "none"    get_json returns None
\*   "falsy"   parsable JSON that is falsy ({} , [], 0, "")
\*   "nondict" parsable, truthy JSON that is not an object
\*   "dict"    a non-empty JSON object
JsonKinds == {"raise", "none", "falsy", "nondict", "dict"}

\* locators: "absent" (key missing or null), "nolen" (truthy value without
\* len(), such as a number), "list" (a JSON list, possibly empty)
NoPath == CHOOSE p \in PathPool : ~p.present

Requests ==
    { [json |-> j, path |-> NoPath, locKind |-> "absent", locators |-> <<>>] :
        j \in JsonKinds \ {"dict"} }
    \cup { [json |-> "dict", path |-> p, locKind |-> k, locators |-> <<>>] :
             p \in PathPool, k \in {"absent", "nolen"} }
    \cup { [json |-> "dict", path |-> p, locKind |-> "list", locators |-> l] :
             p \in PathPool, l \in SeqsUpTo(LocatorPool, MaxLocs) }

(***************************************************************************)
(* app.py: path resolution                                                 *)
(***************************************************************************)
\* without the two "not found" branches: the path is taken as it comes
resolve_unchecked(p) ==
    IF ~p.isAbs
    THEN IF p.inRoot THEN "root" ELSE "data"
    ELSE "input"

\* "root", "data", "input", or "notfound" for the two 404 branches
resolve(p) ==
    IF ~p.isAbs
    THEN IF p.inRoot THEN "root"
         ELSE IF p.inData THEN "data"
         ELSE "notfound"
    ELSE IF p.exists THEN "input" ELSE "notfound"

output_image_dir == "data/generated_slices"

(***************************************************************************)
(* slice_obj.py: create_slice_image_pyvista                                *)
(***************************************************************************)
\* The library and file-system calls of one invocation, in program order.
\* "fault" names the first of them that raises or gives the degenerate
\* answer; "none" means every one of them succeeds on a non-empty slice.
Stages == << "open_read",     \* :24-25 open / read of the mesh file raises
             "mktemp",        \* :26 NamedTemporaryFile raises, no file made
             "tmp_write",     \* :27 tmp_f_pv.write raises
             "tmp_close",     \* :26-28 closing the temp file raises
             "pv_read",       \* :30 pv.read raises
             "no_points",     \* :41 mesh has no points
             "slice",         \* :47 mesh_pv.slice raises
             "empty_slice",   \* :49 no slice geometry
             "plotter",       \* :74 pv.Plotter raises
             "add_mesh",      \* :75 add_mesh raises
             "camera",        \* :78-88 camera set-up raises
             "makedirs",      \* :90 os.makedirs raises
             "screenshot",    \* :93 plotter.screenshot raises
             "none" >>

Faults == { Stages[k] : k \in 1..Len(Stages) }

StageIdx(f) == CHOOSE k \in 1..Len(Stages) : Stages[k] = f

LoadFaults == {"open_read", "mktemp", "tmp_write", "tmp_close", "pv_read"}
RenderFaults == {"add_mesh", "camera", "makedirs", "screenshot"}

\* mesh_pv was read (:30) / what mesh_pv.slice gave (:47-49)
Loaded(fault) == fault \notin LoadFaults

Sliced(fault) ==
    IF fault \in LoadFaults \cup {"no_points", "slice"} THEN "none"
    ELSE IF fault = "empty_slice" THEN "empty"
    ELSE "geometry"

\* what one call did: its return value, the temp files and Plotters it left,
\* whether it made a Plotter and whether it wrote the screenshot
Outcome(ret, temp_left, plotter_opened, plotter_open, wrote, fault) ==
    [ret |-> ret, temp_left |-> temp_left, plotter_opened |-> plotter_opened,
     plotter_open |-> plotter_open, wrote |-> wrote,
     loaded |-> Loaded(fault), slice |-> Sliced(fault)]

\* temp file of :26 is on disk after the finally block of :35-39
TempLeft(fault, rm_fails) ==
    LET created == fault \notin {"open_read", "mktemp"}
        named   == created /\ fault # "tmp_write"      \* :28 was executed
        removed == named /\ ~rm_fails                  \* :36-39
    IN  IF created /\ ~removed THEN 1 ELSE 0

\* an empty slice reported as a failure
create_slice_image_pyvista_emptyfails(fault, rm_fails) ==
    LET t == TempLeft(fault, rm_fails)
    IN  IF fault \in LoadFaults THEN Outcome(FALSE, t, FALSE, FALSE, FALSE, fault)
        ELSE IF fault = "no_points" THEN Outcome(FALSE, t, FALSE, FALSE, FALSE, fault)
        ELSE IF fault = "slice" THEN Outcome(FALSE, t, FALSE, FALSE, FALSE, fault)
        ELSE IF fault = "empty_slice" THEN Outcome(FALSE, t, FALSE, FALSE, FALSE, fault)
        ELSE IF fault = "plotter" THEN Outcome(FALSE, t, FALSE, FALSE, FALSE, fault)
        ELSE IF fault \in RenderFaults THEN Outcome(FALSE, t, TRUE, TRUE, FALSE, fault)
        ELSE Outcome(TRUE, t, TRUE, FALSE, TRUE, fault)

\* a failed screenshot that is not noticed
create_slice_image_pyvista_noshot(fault, rm_fails) ==
    LET t == TempLeft(fault, rm_fails)
    IN  IF fault \in LoadFaults THEN Outcome(FALSE, t, FALSE, FALSE, FALSE, fault)
        ELSE IF fault = "no_points" THEN Outcome(FALSE, t, FALSE, FALSE, FALSE, fault)
        ELSE IF fault = "slice" THEN Outcome(FALSE, t, FALSE, FALSE, FALSE, fault)
        ELSE IF fault = "empty_slice" THEN Outcome(TRUE, t, FALSE, FALSE, FALSE, fault)
        ELSE IF fault = "plotter" THEN Outcome(FALSE, t, FALSE, FALSE, FALSE, fault)
        ELSE IF fault = "screenshot" THEN Outcome(TRUE, t, TRUE, FALSE, FALSE, fault)
        ELSE IF fault \in RenderFaults THEN Outcome(FALSE, t, TRUE, TRUE, FALSE, fault)
        ELSE Outcome(TRUE, t, TRUE, FALSE, TRUE, fault)

create_slice_image_pyvista(fault, rm_fails) ==
    LET t == TempLeft(fault, rm_fails)
    IN  \* :32-34 the load failed: return False
        IF fault \in LoadFaults THEN Outcome(FALSE, t, FALSE, FALSE, FALSE, fault)
        \* :41-43 empty mesh: return False
        ELSE IF fault = "no_points" THEN Outcome(FALSE, t, FALSE, FALSE, FALSE, fault)
        \* :47 raises, caught at :98-102
        ELSE IF fault = "slice" THEN Outcome(FALSE, t, FALSE, FALSE, FALSE, fault)
        \* :49-52 empty slice: return True, nothing rendered
        ELSE IF fault = "empty_slice" THEN Outcome(TRUE, t, FALSE, FALSE, FALSE, fault)
        \* :74 raises, caught at :98-102
        ELSE IF fault = "plotter" THEN Outcome(FALSE, t, FALSE, FALSE, FALSE, fault)
        \* :75-93 raises after the Plotter was made; :94 is skipped
        ELSE IF fault \in RenderFaults THEN Outcome(FALSE, t, TRUE, TRUE, FALSE, fault)
        \* :93-96 screenshot written, plotter closed, return True
        ELSE Outcome(TRUE, t, TRUE, FALSE, TRUE, fault)

(***************************************************************************)
(* slice_obj.py: process_locators_for_obj                                  *)
(***************************************************************************)
fallback_id(r) == "unknown_loc_" \o ToString(r)

\* the id is not read from the locator
locator_id_generated(loc, r) == fallback_id(r)

\* :159 loc_data.get("id", f"unknown_loc_{np.random.randint(1000)}")
locator_id(loc, r) == IF "id" \in loc.has THEN loc.id ELSE fallback_id(r)

\* dict.get(key, 0.0) of a numeric field
Get(loc, key, v) == IF key \in loc.has THEN v ELSE 0

\* :159-169 raises: the entry has no .get, or np.deg2rad gets a non-number
derive_raises(loc) == ~loc.isDict \/ (loc.bad \cap RotKeys) # {}

\* np.array of :160 accepts a non-number; mesh_pv.slice of :47 then raises
origin_bad(loc) == (loc.bad \cap PosKeys) # {}

image_path(dir, id) == dir \o "/" \o id \o ".png"

\* :174-177
slice_result(ok, id, dir) ==
    IF ok
    THEN [id |-> id, status |-> "success", image_path |-> image_path(dir, id)]
    ELSE [id |-> id, status |-> "error",
          message |-> "Failed to create slice image for " \o id \o " using PyVista"]

\* the batch reports failure as soon as one locator failed
batch_success_all(res) == \A k \in 1..Len(res) : res[k].status = "success"

\* :179 return True, results
batch_success(res) == TRUE

(***************************************************************************)
(* app.py: slice_model_endpoint, one request from arrival to response      *)
(***************************************************************************)
NormalIdle ==
    /\ npc = "off" /\ nrx = 0 /\ nry = 0 /\ nrz = 0
    /\ normal_vec = <<0, 0, 1>>

Init ==
    /\ pc = "get_json"
    /\ req \in Requests
    /\ obj_file_path_actual = ""
    /\ makedirs_called = FALSE
    /\ process_called = FALSE
    /\ returned = FALSE
    /\ escaped = FALSE
    /\ idx = 0
    /\ results = <<>>
    /\ calls = <<>>
    /\ success = FALSE
    /\ http = 0
    /\ temp_files = 0
    /\ open_plotters = 0
    /\ written = {}
    /\ NormalIdle

Respond(code) ==
    /\ http' = code
    /\ pc' = "done"

\* :14-16, and :73-75 when get_json raises
GetJson ==
    /\ pc = "get_json"
    /\ IF req.json = "raise" THEN Respond(500)
       ELSE IF req.json \in {"none", "falsy"} THEN Respond(400)
       ELSE pc' = "fields" /\ http' = http
    /\ UNCHANGED <<req, obj_file_path_actual, makedirs_called, process_called,
                   returned, escaped, idx, results, calls, success,
                   temp_files, open_plotters, written, normalVars>>

\* :18-22, and :73-75 when data has no .get
GetFields ==
    /\ pc = "fields"
    /\ IF req.json = "nondict" THEN Respond(500)
       ELSE IF ~req.path.present
               \/ req.locKind = "absent"
               \/ (req.locKind = "list" /\ req.locators = <<>>)
            THEN Respond(400)
       ELSE pc' = "resolve" /\ http' = http
    /\ UNCHANGED <<req, obj_file_path_actual, makedirs_called, process_called,
                   returned, escaped, idx, results, calls, success,
                   temp_files, open_plotters, written, normalVars>>

\* :29-45, and :73-75 when os.path.isabs gets a non-string
ResolvePath ==
    /\ pc = "resolve"
    /\ IF ~req.path.isStr
       THEN Respond(500) /\ UNCHANGED obj_file_path_actual
       ELSE IF resolve(req.path) = "notfound"
            THEN Respond(404) /\ UNCHANGED obj_file_path_actual
       ELSE /\ obj_file_path_actual' = resolve(req.path)
            /\ pc' = "makedirs"
            /\ http' = http
    /\ UNCHANGED <<req, makedirs_called, process_called, returned, escaped,
                   idx, results, calls, success, temp_files, open_plotters,
                   written, normalVars>>

\* :47-52: len(locators_data) raises for a value without len(); os.makedirs
\* creates the directory or raises
MakeOutputDir ==
    /\ pc = "makedirs"
    /\ IF req.locKind = "nolen"
       THEN Respond(500) /\ UNCHANGED makedirs_called
       ELSE \E ok \in BOOLEAN :
              IF ok
              THEN /\ makedirs_called' = TRUE
                   /\ pc' = "call"
                   /\ http' = http
              ELSE Respond(500) /\ UNCHANGED makedirs_called
    /\ UNCHANGED <<req, obj_file_path_actual, process_called, returned,
                   escaped, idx, results, calls, success, temp_files,
                   open_plotters, written, normalVars>>

\* :55 the call, slice_obj.py:153-157
CallProcess ==
    /\ pc = "call"
    /\ process_called' = TRUE
    /\ results' = <<>>
    /\ idx' = 1
    /\ pc' = "loop"
    /\ UNCHANGED <<req, obj_file_path_actual, makedirs_called, returned,
                   escaped, calls, success, http, temp_files, open_plotters,
                   written, normalVars>>

\* slice_obj.py:158-169 raises: the exception leaves process_locators_for_obj
\* and is caught at app.py:73-75
LocatorRaises ==
    /\ pc = "loop"
    /\ idx <= Len(req.locators)
    /\ derive_raises(req.locators[idx])
    /\ escaped' = TRUE
    /\ Respond(500)
    /\ UNCHANGED <<req, obj_file_path_actual, makedirs_called, process_called,
                   returned, idx, results, calls, success, temp_files,
                   open_plotters, written, normalVars>>

\* slice_obj.py:158-177, one iteration of the loop
ProcessLocator ==
    /\ pc = "loop"
    /\ idx <= Len(req.locators)
    /\ ~derive_raises(req.locators[idx])
    /\ \E r \in 0..(FallbackRange - 1), fault \in Faults, rm_fails \in BOOLEAN :
         LET loc == req.locators[idx]
             locator_id_ == locator_id(loc, r)
             plane_normal == calculate_plane_normal(Get(loc, "rx", loc.rx),
                                                    Get(loc, "ry", loc.ry),
                                                    Get(loc, "rz", loc.rz))
             out == create_slice_image_pyvista(fault, rm_fails)
         IN  /\ origin_bad(loc) => StageIdx(fault) <= StageIdx("slice")
             /\ results' = Append(results,
                                  slice_result(out.ret, locator_id_, output_image_dir))
             /\ calls' = Append(calls, out @@ [normal |-> plane_normal])
             /\ temp_files' = temp_files + out.temp_left
             /\ open_plotters' = open_plotters + (IF out.plotter_open THEN 1 ELSE 0)
             /\ written' = IF out.wrote
                           THEN written \cup {image_path(output_image_dir, locator_id_)}
                           ELSE written
    /\ idx' = idx + 1
    /\ UNCHANGED <<pc, req, obj_file_path_actual, makedirs_called,
                   process_called, returned, escaped, success, http, normalVars>>

\* slice_obj.py:179
ReturnProcess ==
    /\ pc = "loop"
    /\ idx > Len(req.locators)
    /\ success' = batch_success(results)
    /\ returned' = TRUE
    /\ pc' = "respond"
    /\ UNCHANGED <<req, obj_file_path_actual, makedirs_called, process_called,
                   escaped, idx, results, calls, http, temp_files,
                   open_plotters, written, normalVars>>

\* app.py:57-71
SendResponse ==
    /\ pc = "respond"
    /\ IF success THEN Respond(200) ELSE Respond(500)
    /\ UNCHANGED <<req, obj_file_path_actual, makedirs_called, process_called,
                   returned, escaped, idx, results, calls, success, temp_files,
                   open_plotters, written, normalVars>>

Next ==
    \/ GetJson
    \/ GetFields
    \/ ResolvePath
    \/ MakeOutputDir
    \/ CallProcess
    \/ LocatorRaises
    \/ ProcessLocator
    \/ ReturnProcess
    \/ SendResponse

Spec == Init /\ [][Next]_vars

(***************************************************************************)
(* calculate_plane_normal applied to angles drawn from bounded sets        *)
(***************************************************************************)
RightAngles == { 90 * k : k \in (-MaxQuarter)..MaxQuarter }
RzAngles == { 45 * k : k \in (-MaxRz)..MaxRz }

HandlerIdle ==
    /\ pc = "off"
    /\ req = CHOOSE q \in Requests : q.json = "none"
    /\ obj_file_path_actual = ""
    /\ makedirs_called = FALSE
    /\ process_called = FALSE
    /\ returned = FALSE
    /\ escaped = FALSE
    /\ idx = 0
    /\ results = <<>>
    /\ calls = <<>>
    /\ success = FALSE
    /\ http = 0
    /\ temp_files = 0
    /\ open_plotters = 0
    /\ written = {}

InitNormal ==
    /\ HandlerIdle
    /\ npc = "args"
    /\ nrx \in RightAngles
    /\ nry \in RightAngles
    /\ nrz \in RzAngles
    /\ normal_vec = <<0, 0, 0>>

ComputeNormal ==
    /\ npc = "args"
    /\ normal_vec' = calculate_plane_normal(nrx, nry, nrz)
    /\ npc' = "done"
    /\ UNCHANGED <<nrx, nry, nrz, handlerVars>>

NextNormal == ComputeNormal

SpecNormal == InitNormal /\ [][NextNormal]_vars

(***************************************************************************)
(* Properties                                                              *)
(***************************************************************************)
Statuses == {"success", "error"}

IsFallbackId(id) == \E r \in 0..(FallbackRange - 1) : id = fallback_id(r)

\* the request passes the checks of app.py:15 and :21
PassesValidation ==
    /\ req.json = "dict"
    /\ req.path.present
    /\ \/ req.locKind = "nolen"
       \/ (req.locKind = "list" /\ req.locators # <<>>)

\* C1: whenever process_locators_for_obj returns, its result list has one
\* record per input locator, in input order; the k-th record carries the id
\* of the k-th locator, or a generated fallback id when the locator has
\* none, and its status is 'success' or 'error'.
C1_OneRecordPerLocator ==
    returned =>
        /\ Len(results) = Len(req.locators)
        /\ \A k \in 1..Len(results) :
             /\ results[k].status \in Statuses
             /\ IF "id" \in req.locators[k].has
                THEN results[k].id = req.locators[k].id
                ELSE IsFallbackId(results[k].id)

C1_Witness ==
    /\ returned
    /\ Len(results) >= 2
    /\ "id" \in req.locators[1].has
    /\ "id" \notin req.locators[2].has
    /\ results[1].status = "error"
    /\ results[2].status = "success"

\* C2: a failure while processing one locator (load, slice or render error,
\* or an exception raised while deriving its id, origin or normal) becomes a
\* 'status: error' record of that locator only and the loop goes on: no
\* exception leaves process_locators_for_obj, and once the batch was entered
\* the finished request has a record for every locator.
C2_NoFailureEscapes ==
    /\ ~escaped
    /\ (process_called /\ pc = "done") => Len(results) = Len(req.locators)

\* C3: a request whose body is missing or unparsable, or that lacks
\* obj_file_path or locators, is answered with 400, and neither the output
\* directory is created nor the batch processor called for it.
C3_InvalidRequestIs400 ==
    ~PassesValidation /\ req.json # "nondict" =>
        /\ pc = "done" => http = 400
        /\ ~makedirs_called
        /\ ~process_called

\* the mesh path of the request is a path that none of the three rules finds
Unresolvable(p) ==
    /\ p.present /\ p.isStr
    /\ IF p.isAbs THEN ~p.exists ELSE ~p.inRoot /\ ~p.inData

\* C4: a valid request whose obj_file_path cannot be resolved is answered
\* with 404, and for it the output directory is never created and the batch
\* processor never invoked; the directory is created only after the path
\* has been resolved.
C4_UnresolvedIs404 ==
    /\ (PassesValidation /\ Unresolvable(req.path)) =>
          /\ pc = "done" => http = 404
          /\ ~makedirs_called
          /\ ~process_called
    /\ makedirs_called =>
          /\ obj_file_path_actual # ""
          /\ ~Unresolvable(req.path)

C4_Witness ==
    /\ PassesValidation
    /\ Unresolvable(req.path)
    /\ ~req.path.isAbs
    /\ pc = "done"
    /\ http = 404

C6_EmptySliceIsSuccess ==
    \A k \in 1..Len(calls) :
        (calls[k].loaded /\ calls[k].slice = "empty") =>
            /\ results[k].status = "success"
            /\ ~calls[k].plotter_opened
            /\ ~calls[k].wrote

C6_Witness ==
    /\ returned
    /\ \E k \in 1..Len(calls) :
         /\ calls[k].loaded
         /\ calls[k].slice = "empty"
         /\ results[k].status = "success"

C8_NoTempFileLeft == temp_files = 0

\* C9: every Plotter opened by create_slice_image_pyvista is closed before
\* the function returns, on every exit path.
C9_NoPlotterLeftOpen == open_plotters = 0

\* C10 as stated: every 'status: success' record names an image file that
\* was written while its locator was processed.
C10_SuccessHasImage ==
    \A k \in 1..Len(results) :
        results[k].status = "success" =>
            /\ calls[k].wrote
            /\ results[k].image_path \in written

\* C10 amended: every 'status: success' record either belongs to a locator
\* whose cross-section was empty (nothing rendered), or names an image file
\* that was written while its locator was processed.
C10_SuccessHasImageUnlessEmpty ==
    \A k \in 1..Len(results) :
        results[k].status = "success" =>
            \/ calls[k].slice = "empty" /\ ~calls[k].wrote
            \/ calls[k].wrote /\ results[k].image_path \in written

C10_Witness ==
    /\ returned
    /\ \E k \in 1..Len(results) :
         results[k].status = "success" /\ calls[k].wrote
                                       /\ results[k].image_path \in written
    /\ \E k \in 1..Len(results) :
         results[k].status = "success" /\ calls[k].slice = "empty"

====
